---- MODULE Spec2Model ----
(***************************************************************************)
(* Model of welleng/survey.py: the Survey constructor, interpolate_survey  *)
(* and make_cov.                                                           *)
(*                                                                         *)
(* Numbers.  Angles in radians are counted in units of pi/4 (so 2 is a     *)
(* right angle); angles in degrees are plain integers.  Direction          *)
(* components are exact elements of Z[sqrt 2]/2, written <<a, b>> for      *)
(* (a + b*sqrt2)/2.  Lengths and positions are exact numbers               *)
(* <<a, b, c, d>> = (a + b*sqrt2)/2 + (c + d*sqrt2)/(2*pi); the pi part is *)
(* produced by the ratio factor of minimum curvature.                      *)
(***************************************************************************)
EXTENDS Integers, Sequences, FiniteSets, TLC

\* Largest number of stations of a survey handed to the constructor.
MaxStations == 3
\* Largest interpolation distance x tried.
MaxX == 3
\* Largest number of stations handed to make_cov.
MaxCovStations == 2

VARIABLES survey, outcome, trace, call, result, built, cov

vars == <<survey, outcome, trace, call, result, built, cov>>

---------------------------------------------------------------------------
\* Python's None and a present value.
None == [some |-> FALSE]
Some(v) == [some |-> TRUE, val |-> v]

\* F applied to the value of e, computed once.
Then(e, F(_)) == CHOOSE r \in {F(v) : v \in {e}} : TRUE

\* seq[i] with Python's 0-based index and negative wrap-around.
InRange(seq, i) == -Len(seq) <= i /\ i < Len(seq)
PyIdx(seq, i) == IF i >= 0 THEN seq[i + 1] ELSE seq[Len(seq) + i + 1]

---------------------------------------------------------------------------
\* Exact arithmetic in Z[sqrt 2]/2.
Add2(p, q) == <<p[1] + q[1], p[2] + q[2]>>
Mul2(p, q) == <<(p[1] * q[1] + 2 * p[2] * q[2]) \div 2, (p[1] * q[2] + p[2] * q[1]) \div 2>>
\* p / q for the divisors sin(D) met on the grid: 1 and sqrt2/2.
Div2(p, q) == CASE q = <<2, 0>> -> p
                [] q = <<0, 1>> -> <<2 * p[2], p[1]>>

SinTable == << <<0, 0>>, <<0, 1>>, <<2, 0>>, <<0, 1>>, <<0, 0>>, <<0, -1>>, <<-2, 0>>, <<0, -1>> >>
Sin(k) == SinTable[(k % 8) + 1]
Cos(k) == Sin(k + 2)

\* Exact positions and lengths.
Num(k) == <<2 * k, 0, 0, 0>>
AddP(p, q) == <<p[1] + q[1], p[2] + q[2], p[3] + q[3], p[4] + q[4]>>
SubP(p, q) == <<p[1] - q[1], p[2] - q[2], p[3] - q[3], p[4] - q[4]>>
AddV(u, v) == <<AddP(u[1], v[1]), AddP(u[2], v[2]), AddP(u[3], v[3])>>

\* numpy's radians/degrees on the grid of multiples of 45 degrees.
radians(a) == [k \in 1..Len(a) |-> a[k] \div 45]
degrees(a) == [k \in 1..Len(a) |-> 45 * a[k]]

\* Columns of a list of per-station sequences: np.array([c1, c2, c3]).T
Rows(c1, c2, c3) == [k \in 1..Len(c1) |-> <<c1[k], c2[k], c3[k]>>]
Col(rows, j) == [k \in 1..Len(rows) |-> rows[k][j]]

\* ndarray.T of a three-dimensional array: the axes are reversed.
T3(A) == [k \in 1..Len(A[1][1]) |-> [j \in 1..Len(A[1]) |-> [i \in 1..Len(A) |-> A[i][j][k]]]]

---------------------------------------------------------------------------
\* welleng.utils: unit tangent of a station, (east, north, down).
get_vec(inc, azi) == <<Mul2(Sin(inc), Sin(azi)), Mul2(Sin(inc), Cos(azi)), Cos(inc)>>

\* welleng.utils: inverse of get_vec; the azimuth of a vertical tangent is 0.
get_angles(t) ==
    Then({ia \in (0..4) \X (0..7) : get_vec(ia[1], ia[2]) = t},
         LAMBDA S : CHOOSE ia \in S : \A o \in S : ia[2] <= o[2])

Dot(u, v) == Add2(Add2(Mul2(u[1], v[1]), Mul2(u[2], v[2])), Mul2(u[3], v[3]))
Acos(p) == CHOOSE k \in 0..4 : Cos(k) = p

\* Ratio factor 2/D * tan(D/2): 1, 8(sqrt2 - 1)/pi, 4/pi for D = 0, pi/4, pi/2.
RatioFactor(D) == CASE D = 0 -> <<2, 0, 0, 0>>
                    [] D = 1 -> <<0, 0, -16, 16>>
                    [] D = 2 -> <<0, 0, 8, 0>>

\* (dmd / 2) * rf * s for an integer dmd, a ratio factor rf and a component s.
Scale(dmd, rf, s) ==
    <<(dmd * (rf[1] * s[1] + 2 * rf[2] * s[2])) \div 4,
      (dmd * (rf[1] * s[2] + rf[2] * s[1])) \div 4,
      (dmd * (rf[3] * s[1] + 2 * rf[4] * s[2])) \div 4,
      (dmd * (rf[3] * s[2] + rf[4] * s[1])) \div 4>>

RECURSIVE Positions(_, _, _, _, _)
Positions(md, inc, azi, start_xyz, k) ==
    IF k = 1 THEN <<start_xyz>>
    ELSE LET prev == Positions(md, inc, azi, start_xyz, k - 1)
             v1 == get_vec(inc[k - 1], azi[k - 1])
             v2 == get_vec(inc[k], azi[k])
             rf == RatioFactor(Acos(Dot(v1, v2)))
             dmd == md[k] - md[k - 1]
             step == [j \in 1..3 |-> Scale(dmd, rf, Add2(v1[j], v2[j]))]
         IN  Append(prev, AddV(prev[k - 1], step))

\* welleng.utils.MinCurve: the minimum-curvature solver.
MinCurve(md, inc, azi, start_xyz, unit) ==
    LET N == Len(md)
        D(k) == IF k = 1 THEN 0
                ELSE Acos(Dot(get_vec(inc[k - 1], azi[k - 1]), get_vec(inc[k], azi[k])))
        dmd(k) == IF k = 1 THEN 0 ELSE md[k] - md[k - 1]
    IN  [dogleg |-> [k \in 1..N |-> D(k)],
         rf |-> [k \in 1..N |-> RatioFactor(D(k))],
         delta_md |-> [k \in 1..N |-> dmd(k)],
         dls |-> [k \in 1..N |-> <<D(k), dmd(k)>>],
         poss |-> Positions(md, inc, azi, start_xyz, N)]

\* welleng.utils.get_nev: translation of (x, y, z) into (north, east, tvd).
get_nev(pos, start_xyz, start_nev) ==
    [k \in 1..Len(pos) |->
        <<AddP(SubP(pos[k][2], start_xyz[2]), start_nev[1]),
          AddP(SubP(pos[k][1], start_xyz[1]), start_nev[2]),
          AddP(SubP(pos[k][3], start_xyz[3]), start_nev[3])>>]

\* welleng.error.ErrorModel: covariances in axis-major layout (3, 3, n).
ErrorModel(survey_deg, surface_loc, well_ref_params) ==
    [cov_HLAs |-> [i \in 1..3 |-> [j \in 1..3 |-> [k \in 1..Len(survey_deg) |->
                      100 * i + 10 * j + survey_deg[k][1]]]],
     cov_NEVs |-> [i \in 1..3 |-> [j \in 1..3 |-> [k \in 1..Len(survey_deg) |->
                      1000 + 100 * i + 10 * j + survey_deg[k][1]]]]]

---------------------------------------------------------------------------
\* Survey._make_angles: both angle units, one converted from the other.
_make_angles(inc, azi, deg) ==
    IF deg
    THEN [inc_rad |-> radians(inc), azi_rad |-> radians(azi), inc_deg |-> inc, azi_deg |-> azi]
    ELSE [inc_rad |-> inc, azi_rad |-> azi, inc_deg |-> degrees(inc), azi_deg |-> degrees(azi)]

\* Survey._get_nev: n, e, tvd from the x, y, z columns.  np.array of columns
\* of which one is None is no (n, 3) array, and the projection fails.
_get_nev(self) ==
    IF ~(self.x.some /\ self.y.some /\ self.z.some)
    THEN [outcome |-> "ArrayError", self |-> self]
    ELSE LET nev == get_nev(Rows(self.x.val, self.y.val, self.z.val),
                            self.start_xyz, self.start_nev)
         IN  [outcome |-> "ok",
              self |-> [n |-> Some(Col(nev, 1)), e |-> Some(Col(nev, 2)),
                        tvd |-> Some(Col(nev, 3))] @@ self]

\* _min_curve adding the solver's positions onto positions already present.
_min_curve_accumulating(self) ==
    Then(MinCurve(self.md, self.inc_rad, self.azi_rad, self.start_xyz, self.unit),
    LAMBDA mc :
    Then([dogleg |-> mc.dogleg, rf |-> mc.rf, delta_md |-> mc.delta_md, dls |-> mc.dls,
          x |-> Some(IF self.x.some
                     THEN [k \in 1..Len(self.md) |-> AddP(self.x.val[k], mc.poss[k][1])]
                     ELSE Col(mc.poss, 1)),
          y |-> Some(IF self.y.some
                     THEN [k \in 1..Len(self.md) |-> AddP(self.y.val[k], mc.poss[k][2])]
                     ELSE Col(mc.poss, 2)),
          z |-> Some(IF self.z.some
                     THEN [k \in 1..Len(self.md) |-> AddP(self.z.val[k], mc.poss[k][3])]
                     ELSE Col(mc.poss, 3))] @@ self,
    LAMBDA s2 :
    Then(IF ~s2.n.some THEN _get_nev(s2) ELSE [outcome |-> "ok", self |-> s2],
    LAMBDA nev :
        [outcome |-> nev.outcome,
         self |-> IF ~nev.self.vec.some
                  THEN [vec |-> Some([k \in 1..Len(self.inc_rad) |->
                           get_vec(self.inc_rad[k], self.azi_rad[k])])] @@ nev.self
                  ELSE nev.self,
         trace |-> <<"MinCurve">>])))

\* Survey._min_curve: the solver's outputs are always adopted; x, y, z,
\* the NEV projection and vec only when the x, n, vec attribute is None.
_min_curve(self) ==
    Then(MinCurve(self.md, self.inc_rad, self.azi_rad, self.start_xyz, self.unit),
    LAMBDA mc :
    Then(IF ~self.x.some
         THEN [dogleg |-> mc.dogleg, rf |-> mc.rf, delta_md |-> mc.delta_md,
               dls |-> mc.dls, x |-> Some(Col(mc.poss, 1)),
               y |-> Some(Col(mc.poss, 2)), z |-> Some(Col(mc.poss, 3))] @@ self
         ELSE [dogleg |-> mc.dogleg, rf |-> mc.rf, delta_md |-> mc.delta_md,
               dls |-> mc.dls] @@ self,
    LAMBDA s2 :
    Then(IF ~s2.n.some THEN _get_nev(s2) ELSE [outcome |-> "ok", self |-> s2],
    LAMBDA nev :
        IF nev.outcome # "ok"
        THEN [outcome |-> nev.outcome, self |-> nev.self,
              trace |-> <<"MinCurve", "get_nev">>]
        ELSE [outcome |-> "ok",
              self |-> IF ~nev.self.vec.some
                       THEN [vec |-> Some([k \in 1..Len(self.inc_rad) |->
                                get_vec(self.inc_rad[k], self.azi_rad[k])])] @@ nev.self
                       ELSE nev.self,
              trace |-> <<"MinCurve">>
                        \o (IF ~s2.n.some THEN <<"get_nev">> ELSE <<>>)
                        \o (IF ~nev.self.vec.some THEN <<"get_vec">> ELSE <<>>)])))

\* The recognized error models.
error_models == {"ISCWSA_MWD"}

\* The error model check left out: every tag passes.
recognized_any(error_model) == TRUE

\* assert error_model in error_models, when one is given.
recognized(error_model) == error_model.some => error_model.val \in error_models

\* _get_errors storing the error model's arrays without the transpose.
_get_errors_untransposed(self) ==
    IF self.error_model.some /\ self.error_model.val = "ISCWSA_MWD"
    THEN Then(ErrorModel(self.survey_deg, self.start_xyz, self.well_ref_params),
              LAMBDA err :
              [self |-> [err |-> Some(err), cov_hla |-> Some(err.cov_HLAs),
                         cov_nev |-> Some(err.cov_NEVs)] @@ self,
               trace |-> <<"ErrorModel">>])
    ELSE [self |-> self, trace |-> <<>>]

\* Survey._get_errors: the error model's covariances replace the attributes.
_get_errors(self) ==
    IF self.error_model.some /\ self.error_model.val = "ISCWSA_MWD"
    THEN Then(ErrorModel(self.survey_deg, self.start_xyz, self.well_ref_params),
              LAMBDA err :
              [self |-> [err |-> Some(err), cov_hla |-> Some(T3(err.cov_HLAs)),
                         cov_nev |-> Some(T3(err.cov_NEVs))] @@ self,
               trace |-> <<"ErrorModel">>])
    ELSE [self |-> self, trace |-> <<>>]

\* Survey.__init__, for the keyword arguments a.  The result is the outcome
\* ("ok" or the failure raised), the instance and the calls made, in order.
Survey__init__(a) ==
    Then(_make_angles(a.inc, a.azi, a.deg), LAMBDA ang :
    Then(_min_curve(
           [unit |-> a.unit, deg |-> a.deg, start_xyz |-> a.start_xyz,
            start_nev |-> a.start_nev, md |-> a.md,
            inc_rad |-> ang.inc_rad, azi_rad |-> ang.azi_rad,
            inc_deg |-> ang.inc_deg, azi_deg |-> ang.azi_deg,
            radius |-> a.radius,
            survey_deg |-> Rows(a.md, ang.inc_deg, ang.azi_deg),
            survey_rad |-> Rows(a.md, ang.inc_rad, ang.azi_rad),
            n |-> a.n, e |-> a.e, tvd |-> a.tvd,
            x |-> a.x, y |-> a.y, z |-> a.z, vec |-> a.vec]),
    LAMBDA mc :
        IF mc.outcome # "ok"
        THEN [outcome |-> mc.outcome, self |-> None, trace |-> mc.trace]
        ELSE IF ~recognized(a.error_model)
        THEN [outcome |-> "InvalidConfiguration", self |-> None,
              trace |-> mc.trace \o <<"assert error_model">>]
        ELSE Then(_get_errors(
                    [error_model |-> a.error_model,
                     well_ref_params |-> a.well_ref_params,
                     cov_hla |-> a.cov_hla, cov_nev |-> a.cov_nev,
                     err |-> None] @@ mc.self),
             LAMBDA ge :
               [outcome |-> "ok", self |-> Some(ge.self),
                trace |-> mc.trace \o <<"assert error_model">> \o ge.trace])))

---------------------------------------------------------------------------
\* assert index < len(survey.md) - 1
index_in_range(sv, index) == index < Len(sv.md) - 1

\* The x check with the end of the interval excluded (x < delta_md).
x_in_range_strict(sv, x, index) == x < PyIdx(sv.delta_md, index + 1)

\* assert x <= survey.delta_md[index + 1]
x_in_range(sv, x, index) == x <= PyIdx(sv.delta_md, index + 1)

\* The tangent section taking the angles of the station at index + 1.
tangent_angles_next(sv, index) ==
    <<PyIdx(sv.inc_rad, index + 1), PyIdx(sv.azi_rad, index + 1)>>

\* The tangent section: the angles of the station at index.
tangent_angles(sv, index) == <<PyIdx(sv.inc_rad, index), PyIdx(sv.azi_rad, index)>>

\* The weights of t1 and t2 exchanged.
slerp_weights_swapped(D, d) == <<Div2(Sin(d), Sin(D)), Div2(Sin(D - d), Sin(D))>>

\* The weights of t1 and t2 for the dogleg d traversed of the total D.
slerp_weights(D, d) == <<Div2(Sin(D - d), Sin(D)), Div2(Sin(d), Sin(D))>>

\* The curved section: the tangent interpolated on the great circle from
\* vec[index] to vec[index + 1], turned back into angles.
slerp_angles(sv, x, index) ==
    LET t1 == PyIdx(sv.vec.val, index)
        t2 == PyIdx(sv.vec.val, index + 1)
        total_dogleg == PyIdx(sv.dogleg, index + 1)
        dogleg == (x * total_dogleg) \div PyIdx(sv.delta_md, index + 1)
    IN  Then(slerp_weights(total_dogleg, dogleg), LAMBDA w :
             get_angles([j \in 1..3 |-> Add2(Mul2(w[1], t1[j]), Mul2(w[2], t2[j]))]))

\* The arguments of the Survey that interpolate_survey constructs.
new_survey_args(sv, x, index, ia) ==
    [md |-> <<PyIdx(sv.md, index), PyIdx(sv.md, index) + x>>,
     inc |-> <<PyIdx(sv.inc_rad, index), ia[1]>>,
     azi |-> <<PyIdx(sv.azi_rad, index), ia[2]>>,
     n |-> None, e |-> None, tvd |-> None, x |-> None, y |-> None,
     z |-> None, vec |-> None, radius |-> None, cov_nev |-> None,
     cov_hla |-> None, error_model |-> None, well_ref_params |-> None,
     start_xyz |-> PyIdx(Rows(sv.x.val, sv.y.val, sv.z.val), index),
     start_nev |-> PyIdx(Rows(sv.n.val, sv.e.val, sv.tvd.val), index),
     deg |-> FALSE, unit |-> "meters"]

\* interpolate_survey(survey, x, index): the outcome ("ok" or the failure
\* raised), the Survey returned (s), that instance as its constructor left
\* it (built), the argument survey after the call, and the steps taken.
\* An index below -len fails numpy's own bounds check (IndexError); a None
\* among the position columns makes np.array([...]).T[index] fail.
interpolate_survey(sv, x, index) ==
    LET tangent == PyIdx(sv.dogleg, index + 1) = 0
        step == IF tangent THEN "tangent" ELSE "slerp"
        arrays == sv.x.some /\ sv.y.some /\ sv.z.some
                  /\ sv.n.some /\ sv.e.some /\ sv.tvd.some
        fail(o, tr) == [outcome |-> o, s |-> None, built |-> None, survey |-> sv,
                        trace |-> tr]
    IN  IF ~index_in_range(sv, index)
        THEN fail("IndexOutOfRange", <<"assert index">>)
        ELSE IF ~InRange(sv.delta_md, index + 1)
        THEN fail("IndexError", <<"assert index", "assert x">>)
        ELSE IF ~x_in_range(sv, x, index)
        THEN fail("XOutOfRange", <<"assert index", "assert x">>)
        ELSE IF ~InRange(sv.md, index)
        THEN fail("IndexError", <<"assert index", "assert x", step>>)
        ELSE IF ~arrays
        THEN fail("ArrayError", <<"assert index", "assert x", step>>)
        ELSE
        Then(IF tangent THEN tangent_angles(sv, index) ELSE slerp_angles(sv, x, index),
        LAMBDA ia :
        Then(Survey__init__(new_survey_args(sv, x, index, ia)), LAMBDA new :
        IF new.outcome # "ok"
        THEN fail(new.outcome, <<"assert index", "assert x", step, "Survey">>)
        ELSE Then(_min_curve(new.self.val), LAMBDA again :
             [outcome |-> again.outcome, s |-> Some(again.self), built |-> new.self,
              survey |-> sv,
              trace |-> <<"assert index", "assert x", step, "Survey", "_min_curve">>])))

\* make_cov with the a*c product in the place of a*b.
make_cov_misplaced(a, b, c, diag) ==
    LET mul(u, v) == [k \in 1..Len(u) |-> u[k] * v[k]]
        z == [k \in 1..Len(a) |-> 0]
    IN  IF diag
        THEN T3(<< <<mul(a, a), z, z>>,
                   <<z, mul(b, b), z>>,
                   <<z, z, mul(c, c)>> >>)
        ELSE T3(<< <<mul(a, a), mul(a, c), mul(a, c)>>,
                   <<mul(a, b), mul(b, b), mul(b, c)>>,
                   <<mul(a, c), mul(b, c), mul(c, c)>> >>)

\* make_cov(a, b, c, diag) on arrays a, b, c of equal length.
make_cov(a, b, c, diag) ==
    LET mul(u, v) == [k \in 1..Len(u) |-> u[k] * v[k]]
        z == [k \in 1..Len(a) |-> 0]
    IN  IF diag
        THEN T3(<< <<mul(a, a), z, z>>,
                   <<z, mul(b, b), z>>,
                   <<z, z, mul(c, c)>> >>)
        ELSE T3(<< <<mul(a, a), mul(a, b), mul(a, c)>>,
                   <<mul(a, b), mul(b, b), mul(b, c)>>,
                   <<mul(a, c), mul(b, c), mul(c, c)>> >>)

---------------------------------------------------------------------------
\* The inputs tried.  Stations lie on the grid of vertical, north and east
\* directions (inclination 0 or pi/2, azimuth 0 or pi/2), 2 apart in depth.
Grid == {0, 2}
Spacings == {2}
Optional == {"n", "e", "tvd", "x", "y", "z", "vec"}
StartOffsets == {<<Num(0), Num(0), Num(0)>>, <<Num(1), Num(2), Num(3)>>}
ErrorModelTags == {None, Some("ISCWSA_MWD"), Some("ISCWSA")}

MdSeqs(n) == {md \in [1..n -> 0..(2 * n)] :
                 md[1] = 0 /\ \A k \in 1..(n - 1) : (md[k + 1] - md[k]) \in Spacings}

\* A caller-supplied per-station column, covariance and tangent.
Supplied(n, base) == [k \in 1..n |-> Num(base + k)]
SuppliedCov(n, v) == [k \in 1..n |-> [i \in 1..3 |-> [j \in 1..3 |-> v + i]]]
SuppliedVec(n) == [k \in 1..n |-> <<Sin(0), Sin(0), Cos(0)>>]

\* The keyword arguments of Survey(...): angles incs/azis given in radians
\* units are converted when deg is true; given is the set of optional
\* columns the caller supplies.
Args(md, incs, azis, deg, given, model, covs, start) ==
    LET n == Len(md)
        opt(f, v) == IF f \in given THEN Some(v) ELSE None
    IN  [md |-> md,
         inc |-> IF deg THEN degrees(incs) ELSE incs,
         azi |-> IF deg THEN degrees(azis) ELSE azis,
         n |-> opt("n", Supplied(n, 40)), e |-> opt("e", Supplied(n, 50)),
         tvd |-> opt("tvd", Supplied(n, 60)),
         x |-> opt("x", Supplied(n, 10)), y |-> opt("y", Supplied(n, 20)),
         z |-> opt("z", Supplied(n, 30)), vec |-> opt("vec", SuppliedVec(n)),
         radius |-> None,
         cov_nev |-> IF covs THEN Some(SuppliedCov(n, 8)) ELSE None,
         cov_hla |-> IF covs THEN Some(SuppliedCov(n, 7)) ELSE None,
         error_model |-> model, well_ref_params |-> None,
         start_xyz |-> start, start_nev |-> start, deg |-> deg, unit |-> "meters"]

---------------------------------------------------------------------------
\* Construction: Survey(**a).
NoCall == [op |-> "none"]

InitSurvey ==
    /\ survey = None
    /\ outcome = "none"
    /\ trace = <<>>
    /\ call = NoCall
    /\ result = None
    /\ built = None
    /\ cov = None

\* The outcome of Survey(**a), as the state after the call.
Constructed(a, r) ==
    /\ survey' = r.self
    /\ outcome' = r.outcome
    /\ trace' = r.trace
    /\ call' = [op |-> "Survey", args |-> a]
    /\ UNCHANGED <<result, built, cov>>

Construct ==
    /\ call = NoCall
    /\ \E n \in 2..MaxStations : \E md \in MdSeqs(n) :
       \E dirs \in [1..n -> {<<0, 0>>, <<2, 2>>}] :
       \E deg \in BOOLEAN, given \in SUBSET Optional, covs \in BOOLEAN :
       \E model \in ErrorModelTags :
         \E a \in {Args(md, Col(dirs, 1), Col(dirs, 2), deg, given, model, covs,
                          <<Num(0), Num(0), Num(0)>>)} :
         \E r \in {Survey__init__(a)} : Constructed(a, r)

NextSurvey == Construct

SpecSurvey == InitSurvey /\ [][NextSurvey]_vars

---------------------------------------------------------------------------
\* Interpolation: a constructed survey, then one call of interpolate_survey.
\* The surveys tried have no optional column, or caller-supplied x, y, z,
\* or a caller-supplied n alone.
Init ==
    \E n \in 2..MaxStations : \E md \in MdSeqs(n) :
    \E incs \in [1..n -> Grid], azis \in [1..n -> Grid] :
    \E deg \in BOOLEAN, given \in {{}, {"x", "y", "z"}, {"n"}}, start \in StartOffsets :
      \E a \in {Args(md, incs, azis, deg, given, None, FALSE, start)} :
      \E r \in {Survey__init__(a)} :
          /\ survey = r.self
          /\ outcome = r.outcome
          /\ trace = r.trace
          /\ call = [op |-> "Survey", args |-> a]
          /\ result = None
          /\ built = None
          /\ cov = None

Interpolate ==
    /\ call.op = "Survey"
    /\ survey.some
    /\ \E x \in 0..MaxX, index \in (-(MaxStations + 1))..MaxStations :
         \E r \in {interpolate_survey(survey.val, x, index)} :
             /\ survey' = Some(r.survey)
             /\ outcome' = r.outcome
             /\ trace' = r.trace
             /\ call' = [op |-> "interpolate_survey", x |-> x, index |-> index]
             /\ result' = r.s
             /\ built' = r.built
             /\ UNCHANGED cov

Next == Interpolate

Spec == Init /\ [][Next]_vars

---------------------------------------------------------------------------
\* The covariance builder on its own.
Sigmas == {0, 1, 3}

MakeCov ==
    /\ call = NoCall
    /\ \E n \in 1..MaxCovStations : \E a \in [1..n -> Sigmas], b \in [1..n -> Sigmas] :
       \E c \in [1..n -> Sigmas], diag \in BOOLEAN :
         /\ cov' = Some(make_cov(a, b, c, diag))
         /\ call' = [op |-> "make_cov", a |-> a, b |-> b, c |-> c, diag |-> diag]
         /\ outcome' = "ok"
         /\ trace' = <<"make_cov">>
         /\ UNCHANGED <<survey, result, built>>

NextCov == MakeCov

SpecCov == InitSurvey /\ [][NextCov]_vars

---------------------------------------------------------------------------
\* The call under consideration, and the stations it is about.
IsInterp == call.op = "interpolate_survey"
IsSurvey == call.op = "Survey"
IsCov == call.op = "make_cov"
ValidIndex == IsInterp /\ 0 <= call.index /\ call.index <= Len(survey.val.md) - 2
ValidX == 0 <= call.x /\ call.x <= survey.val.delta_md[call.index + 2]
Returned == outcome = "ok" /\ result.some

\* x, y, z, n, e, tvd of station k.
Pos(sv, k) == <<sv.x.val[k], sv.y.val[k], sv.z.val[k],
                sv.n.val[k], sv.e.val[k], sv.tvd.val[k]>>

\* The positions of sv are the solver's, and its NEV their projection.
SolverPositions(sv) ==
    /\ Rows(sv.x.val, sv.y.val, sv.z.val)
         = MinCurve(sv.md, sv.inc_rad, sv.azi_rad, sv.start_xyz, sv.unit).poss
    /\ Rows(sv.n.val, sv.e.val, sv.tvd.val)
         = get_nev(Rows(sv.x.val, sv.y.val, sv.z.val), sv.start_xyz, sv.start_nev)

HasLen(opt, n) == opt.some /\ Len(opt.val) = n

\* C1: for a valid index and 0 <= x <= delta_md[index+1] the Survey returned
\* has exactly 3 stations: the station at index, the interpolated point at
\* depth md[index] + x, and the station at index + 1.
C1_ThreeStations ==
    (ValidIndex /\ ValidX /\ Returned) =>
        LET sv == survey.val
            r == result.val
            i == call.index + 1
        IN  /\ Len(r.md) = 3
            /\ r.md[1] = sv.md[i] /\ r.inc_rad[1] = sv.inc_rad[i]
            /\ r.azi_rad[1] = sv.azi_rad[i]
            /\ r.md[2] = sv.md[i] + call.x
            /\ r.md[3] = sv.md[i + 1] /\ r.inc_rad[3] = sv.inc_rad[i + 1]
            /\ r.azi_rad[3] = sv.azi_rad[i + 1]

\* C2: every index outside [0, n-2], negative ones included, fails with an
\* index-out-of-range failure whatever x is, returning no Survey, and the
\* index check is decided before delta_md[index+1] is read.  (numpy's own
\* IndexError is counted as an index-out-of-range failure here.)
C2_IndexRejected ==
    (IsInterp /\ ~(0 <= call.index /\ call.index <= Len(survey.val.md) - 2)) =>
        /\ outcome \in {"IndexOutOfRange", "IndexError"}
        /\ ~result.some
        /\ outcome = "IndexOutOfRange" => trace = <<"assert index">>

Unrecognized == IsSurvey /\ call.args.error_model.some
                /\ call.args.error_model.val \notin error_models
InTrace(ev) == \E k \in 1..Len(trace) : trace[k] = ev

C5_Covariances ==
    (IsSurvey /\ outcome = "ok") =>
        LET sv == survey.val
            a == call.args
            em == ErrorModel(sv.survey_deg, a.start_xyz, a.well_ref_params)
        IN  IF a.error_model.some
            THEN /\ InTrace("ErrorModel")
                 /\ sv.cov_hla.some /\ sv.cov_nev.some
                 /\ \A k \in 1..Len(sv.md) : \A i \in 1..3 : \A j \in 1..3 :
                        /\ sv.cov_hla.val[k][j][i] = em.cov_HLAs[i][j][k]
                        /\ sv.cov_nev.val[k][j][i] = em.cov_NEVs[i][j][k]
            ELSE /\ ~InTrace("ErrorModel")
                 /\ sv.cov_hla = a.cov_hla
                 /\ sv.cov_nev = a.cov_nev

C5_Witness ==
    /\ IsSurvey /\ outcome = "ok"
    /\ call.args.error_model.some
    /\ call.args.cov_hla.some /\ call.args.cov_nev.some
    /\ survey.val.cov_hla # call.args.cov_hla

\* C6: for a valid index and x, when dogleg[index+1] is 0 the interpolated
\* station has the inclination and azimuth of the station at index, and no
\* spherical interpolation is performed.
C6_Tangent ==
    (ValidIndex /\ ValidX /\ Returned /\ survey.val.dogleg[call.index + 2] = 0) =>
        /\ result.val.inc_rad[2] = survey.val.inc_rad[call.index + 1]
        /\ result.val.azi_rad[2] = survey.val.azi_rad[call.index + 1]
        /\ ~InTrace("slerp")

C6_Witness ==
    /\ ValidIndex /\ ValidX /\ Returned
    /\ survey.val.dogleg[call.index + 2] = 0
    /\ call.x > 0
    /\ InTrace("tangent")

C8_EqualLengths ==
    (IsSurvey /\ outcome = "ok") =>
        LET sv == survey.val
            n == Len(sv.md)
        IN  /\ Len(sv.inc_deg) = n /\ Len(sv.inc_rad) = n
            /\ Len(sv.azi_deg) = n /\ Len(sv.azi_rad) = n
            /\ Len(sv.dogleg) = n /\ Len(sv.delta_md) = n
            /\ Len(sv.rf) = n /\ Len(sv.dls) = n
            /\ HasLen(sv.x, n) /\ HasLen(sv.y, n) /\ HasLen(sv.z, n)
            /\ HasLen(sv.n, n) /\ HasLen(sv.e, n) /\ HasLen(sv.tvd, n)
            /\ HasLen(sv.vec, n)

C10_Frame ==
    [][(call'.op = "interpolate_survey") =>
          /\ survey' = survey
          /\ outcome' = "ok" => (result'.some /\ built'.some /\ result' = built')
          /\ outcome' # "ok" => (~result'.some /\ ~built'.some)]_vars

C10_Witness ==
    /\ IsInterp /\ Returned
    /\ InTrace("_min_curve")
    /\ result = built
    /\ Len(result.val.md) = 2

====
